---- MODULE Spec2Model ----
(***************************************************************************)
(* Model of src/main.py: the job-application follow-up assistant.          *)
(*                                                                         *)
(* The script is one linear run: setup_client, then                        *)
(* read_spreadsheets_into_dataframe, then find_people_to_follow_up, then   *)
(* send_reminder_emails.  The inputs of a run are the clock (now), the     *)
(* worksheet's content (sheet) and the outcome of every call to an         *)
(* external service, which is chosen when the call is made.                *)
(*                                                                         *)
(* Text is modelled as a sequence of characters or words, so that          *)
(* str.replace, strftime and the parsing of the query expression are       *)
(* computed, not assumed.  A cell is text or a number (gspread turns a     *)
(* cell that reads as a number into a number); numbers are exact           *)
(* fractions n/d in lowest terms.                                          *)
(***************************************************************************)
EXTENDS Integers, Sequences, FiniteSets, TLC

VARIABLES
    now,          \* datetime.now(): [y, m, d]
    sheet,        \* the first worksheet: [header, records]
    pc,           \* the statement the run is at
    err,          \* the exception that ended the run, "none" while it runs
    client,       \* the module-level gspread client is set
    heap,         \* the DataFrame objects, by object id (NoFrame: not allocated)
    records_df,   \* main's records_df: an object id, 0 while unbound
    filtered_df,  \* main's filtered_df: an object id, 0 while unbound
    steps,        \* the functions main has called, in order
    smtp,         \* the calls made on the mail server, in order
    sent,         \* the messages the server accepted, in order
    i,            \* position of the send loop in the filtered rows
    failedRow     \* the filtered row whose login or sendmail raised, 0 if none

vars == <<now, sheet, pc, err, client, heap, records_df, filtered_df,
          steps, smtp, sent, i, failedRow>>

----------------------------------------------------------------------------
(* Bounds of the model *)

MaxRows == 3

----------------------------------------------------------------------------
(* Cells *)

Str(s) == [kind |-> "str", s |-> s, n |-> 0, d |-> 1]

RECURSIVE GCD(_, _)
GCD(a, b) == IF b = 0 THEN a ELSE GCD(b, a % b)

Num(n, d) == [kind |-> "num", s |-> <<>>, n |-> n \div GCD(n, d), d |-> d \div GCD(n, d)]

Empty == Str(<<>>)

\* Python's ==, as pandas applies it cell by cell: text never equals a number
CellEq(a, b) ==
    /\ a.kind = b.kind
    /\ IF a.kind = "str" THEN a.s = b.s ELSE a.n * b.d = b.n * a.d

\* Python's truth value of a cell
Truthy(c) == IF c.kind = "str" THEN c.s /= <<>> ELSE c.n /= 0

\* Python's `a or b`
PyOr(a, b) == IF Truthy(a) THEN a ELSE b

----------------------------------------------------------------------------
(* Dates: datetime arithmetic and strftime *)

FollowUpDays == 7

IsLeap(y) == (y % 4 = 0 /\ y % 100 /= 0) \/ y % 400 = 0

DaysIn(y, m) ==
    IF m = 2 THEN (IF IsLeap(y) THEN 29 ELSE 28)
    ELSE IF m \in {4, 6, 9, 11} THEN 30 ELSE 31

PrevDay(t) ==
    IF t.d > 1 THEN [t EXCEPT !.d = t.d - 1]
    ELSE IF t.m > 1 THEN [y |-> t.y, m |-> t.m - 1, d |-> DaysIn(t.y, t.m - 1)]
    ELSE [y |-> t.y - 1, m |-> 12, d |-> 31]

RECURSIVE MinusDays(_, _)
MinusDays(t, k) == IF k = 0 THEN t ELSE MinusDays(PrevDay(t), k - 1)

DigitChars == <<"0", "1", "2", "3", "4", "5", "6", "7", "8", "9">>

\* a two-digit, zero-padded field of strftime
Fmt2(n) == <<DigitChars[(n \div 10) + 1], DigitChars[(n % 10) + 1]>>

\* t.strftime("%m/%d/%y")
strftime(t) == Fmt2(t.m) \o <<"/">> \o Fmt2(t.d) \o <<"/">> \o Fmt2(t.y % 100)

----------------------------------------------------------------------------
(* Column names.  A name is a sequence of words and separators. *)

\* column.replace(" ", "_")
replace(name) == [k \in DOMAIN name |-> IF name[k] = " " THEN "_" ELSE name[k]]

\* [column.replace(" ", "_") for column in df.columns]
NormalizeColumns(cols) == [k \in DOMAIN cols |-> replace(cols[k])]

\* The names the query expression reads
Last_Spoken_On == <<"Last", "_", "Spoken", "_", "On">>
Status         == <<"Status">>
Recruiter      == <<"Recruiter">>
Hiring_Manager == <<"Hiring", "_", "Manager">>

QueryNames == {Last_Spoken_On, Status, Recruiter, Hiring_Manager}

\* Names the spreadsheet may carry beside those
Company == <<"Company">>
Role    == <<"Role">>
Applied == <<"Date", "_", "Applied">>

\* The header as typed in the spreadsheet, with spaces
Spaced(name) == [k \in DOMAIN name |-> IF name[k] = "_" THEN " " ELSE name[k]]

----------------------------------------------------------------------------
(* The DataFrame *)

NoFrame == [columns |-> <<>>, rows |-> <<>>, live |-> FALSE]

Range(f) == {f[k] : k \in DOMAIN f}

HasColumn(df, name) == name \in Range(df.columns)

\* position (from 1) of the column called name
ColumnOf(df, name) == CHOOSE k \in DOMAIN df.columns : df.columns[k] = name

\* row[name]
Field(df, row, name) == row.cells[ColumnOf(df, name)]

\* pd.DataFrame.from_dict(records_data): the columns are the records' keys, so
\* a worksheet without records gives a frame without columns; the index is
\* 0 .. n-1
from_dict(sh) ==
    [columns |-> IF sh.records = <<>> THEN <<>> ELSE sh.header,
     rows    |-> [k \in DOMAIN sh.records |-> [idx |-> k - 1, cells |-> sh.records[k]]],
     live    |-> TRUE]

\* df.reset_index(drop=True): a new frame with the same cells, renumbered
reset_index(df) ==
    [df EXCEPT !.rows = [k \in DOMAIN df.rows |-> [df.rows[k] EXCEPT !.idx = k - 1]]]

----------------------------------------------------------------------------
(* The query expression                                                    *)
(*   f'Last_Spoken_On == {fmt_week_ago} and Status == "" and               *)
(*     (Recruiter != "" or Hiring_Manager != "")'                          *)
(* The date is substituted without quotes, so the expression's right-hand  *)
(* side is the text mm/dd/yy read as Python source: two divisions of       *)
(* integer literals.                                                       *)

RECURSIVE SplitOn(_, _)
\* s.split(sep), for a one-character sep
SplitOn(s, sep) ==
    IF s = <<>> THEN << <<>> >>
    ELSE LET rest == SplitOn(Tail(s), sep)
         IN  IF Head(s) = sep THEN << <<>> >> \o rest
             ELSE << <<Head(s)>> \o Head(rest) >> \o Tail(rest)

DigitVal(c) == CHOOSE v \in 0..9 : DigitChars[v + 1] = c

RECURSIVE IntOf(_)
IntOf(g) ==
    IF g = <<>> THEN 0
    ELSE IntOf(SubSeq(g, 1, Len(g) - 1)) * 10 + DigitVal(g[Len(g)])

\* Python 3 rejects a decimal literal with a leading zero unless it is all zeros
ValidLiteral(g) ==
    /\ g /= <<>>
    /\ \/ g[1] /= "0"
       \/ \A k \in DOMAIN g : g[k] = "0"

\* the operands of the divisions
Operands(fmt) == SplitOn(fmt, "/")

ParsesAsPython(fmt) == \A k \in DOMAIN Operands(fmt) : ValidLiteral(Operands(fmt)[k])

RECURSIVE Product(_)
Product(ops) == IF ops = <<>> THEN 1 ELSE IntOf(Head(ops)) * Product(Tail(ops))

\* a / b / c, evaluated left to right: a / (b * c)
ExprValue(fmt) == Num(IntOf(Head(Operands(fmt))), Product(Tail(Operands(fmt))))

\* the condition without its Status clause
RowMatchesAnyStatus(df, row, fmt) ==
    /\ CellEq(Field(df, row, Last_Spoken_On), ExprValue(fmt))
    /\ \/ ~CellEq(Field(df, row, Recruiter), Empty)
       \/ ~CellEq(Field(df, row, Hiring_Manager), Empty)

\* the condition of the query on one row
RowMatches(df, row, fmt) ==
    /\ CellEq(Field(df, row, Last_Spoken_On), ExprValue(fmt))
    /\ CellEq(Field(df, row, Status), Empty)
    /\ \/ ~CellEq(Field(df, row, Recruiter), Empty)
       \/ ~CellEq(Field(df, row, Hiring_Manager), Empty)

\* df.query raising only on a frame that has rows
QueryErrorOnRowsOnly(df, fmt) ==
    IF df.rows = <<>> THEN "none"
    ELSE IF ~ParsesAsPython(fmt) THEN "SyntaxError"
    ELSE IF \E name \in QueryNames : ~HasColumn(df, name) THEN "UndefinedVariableError"
    ELSE "none"

\* what df.query raises: the expression is parsed first, then its names are
\* resolved against the frame's columns
QueryError(df, fmt) ==
    IF ~ParsesAsPython(fmt) THEN "SyntaxError"
    ELSE IF \E name \in QueryNames : ~HasColumn(df, name) THEN "UndefinedVariableError"
    ELSE "none"

\* df.query(..., inplace=True): the frame keeps the matching rows, in order,
\* each with its index label
query(df, fmt) ==
    [df EXCEPT !.rows = SelectSeq(df.rows, LAMBDA row : RowMatches(df, row, fmt))]

----------------------------------------------------------------------------
(* The inputs of a run *)

\* Headers a worksheet may carry.  Canonical is an order send_reminder_emails'
\* positions fit; Reordered has the same columns elsewhere; Narrow has only
\* the columns the query reads; NoStatus lacks one of them.
Canonical == <<Spaced(Last_Spoken_On), Recruiter, Status, Spaced(Applied),
               Spaced(Hiring_Manager), Company, Role>>
Reordered == <<Company, Role, Recruiter, Spaced(Hiring_Manager),
               Spaced(Last_Spoken_On), Status, Spaced(Applied)>>
Narrow    == <<Spaced(Last_Spoken_On), Status, Recruiter, Spaced(Hiring_Manager)>>
NoStatus  == <<Last_Spoken_On, Recruiter, Spaced(Applied), Hiring_Manager, Company, Role>>

Headers == {Canonical, Reordered, Narrow, NoStatus}

Oct20 == [y |-> 2025, m |-> 10, d |-> 20]
Oct21 == [y |-> 2025, m |-> 10, d |-> 21]

\* The clock: Oct 27 and Oct 28 2025 (a week after Oct20 and Oct21), Mar 3
\* 2025 (a week after Feb 24, across the end of February) and Jan 5 2026 (a
\* week after Dec 29, across the end of the year)
Clock == {[y |-> 2025, m |-> 10, d |-> 27], [y |-> 2025, m |-> 10, d |-> 28],
          [y |-> 2025, m |-> 3, d |-> 3], [y |-> 2026, m |-> 1, d |-> 5]}

Text(w) == Str(<<w>>)

\* The status and the two contacts a row may hold
Holding == {<<Empty, Text("Ann"), Empty>>, <<Empty, Empty, Text("Bob")>>,
            <<Empty, Text("Ann"), Text("Bob")>>,
            <<Text("Rejected"), Text("Ann"), Empty>>, <<Empty, Empty, Empty>>}

\* What a row of the worksheet may hold, by column.  Last Spoken On is a date
\* as the sheet shows it, or a number: 0.02 is the double 10/20/25 evaluates
\* to (10/20 is 0.5, and 0.5/25 rounds to the double of 0.02)
RowChoices ==
    {[lso |-> Num(1, 50), status |-> h[1], recruiter |-> h[2], hm |-> h[3]] : h \in Holding}
    \cup
    {[lso |-> Str(strftime(Oct20)), status |-> Empty, recruiter |-> Text("Ann"), hm |-> Empty],
     [lso |-> Str(strftime(Oct20)), status |-> Text("Rejected"), recruiter |-> Text("Ann"), hm |-> Empty],
     [lso |-> Str(strftime(Oct21)), status |-> Empty, recruiter |-> Text("Ann"), hm |-> Empty]}

\* the cell of row choice rc under the column called name
CellOf(rc, name) ==
    CASE replace(name) = Last_Spoken_On -> rc.lso
      [] replace(name) = Status         -> rc.status
      [] replace(name) = Recruiter      -> rc.recruiter
      [] replace(name) = Hiring_Manager -> rc.hm
      [] replace(name) = Company        -> Text("Acme")
      [] replace(name) = Role           -> Text("Engineer")
      [] OTHER                          -> Str(strftime([y |-> 2025, m |-> 10, d |-> 1]))

\* worksheet.get_all_records(): one record per row, keyed by the header
Sheets ==
    {[header  |-> h,
      records |-> [k \in DOMAIN t |-> [c \in DOMAIN h |-> CellOf(t[k], h[c])]]] :
        h \in Headers, t \in UNION {[1..n -> RowChoices] : n \in 0..MaxRows}}

----------------------------------------------------------------------------
(* The run *)

Init ==
    /\ now \in Clock
    /\ sheet \in Sheets
    /\ pc = "setup_client"
    /\ err = "none"
    /\ client = FALSE
    /\ heap = [o \in {1, 2} |-> NoFrame]
    /\ records_df = 0
    /\ filtered_df = 0
    /\ steps = <<>>
    /\ smtp = <<>>
    /\ sent = <<>>
    /\ i = 0
    /\ failedRow = 0

\* an exception that is caught and passed over
Swallowed(next) == next

\* Nothing in main catches an exception: the statement after a call that
\* raised is never reached, the process ends
Uncaught(next) == "raised"

\* client = setup_client()
setup_client ==
    /\ pc = "setup_client"
    /\ steps' = Append(steps, "setup_client")
    /\ \/ /\ client' = TRUE
          /\ pc' = "read"
          /\ err' = err
       \/ /\ \E e \in {"KeyError", "JSONDecodeError", "ValueError"} : err' = e
          /\ pc' = Uncaught("read")
          /\ client' = client
    /\ UNCHANGED <<now, sheet, heap, records_df, filtered_df, smtp, sent, i, failedRow>>

\* spreadsheet_url = os.environ['SPREADSHEET_URL']
\* records_df = read_spreadsheets_into_dataframe(spreadsheet_url)
read_spreadsheets_into_dataframe ==
    /\ pc = "read"
    /\ \/ /\ steps' = Append(steps, "read_spreadsheets_into_dataframe")
          /\ heap' = [heap EXCEPT ![1] = from_dict(sheet)]
          /\ records_df' = 1
          /\ pc' = "filter"
          /\ err' = err
       \/ /\ steps' = Append(steps, "read_spreadsheets_into_dataframe")
          /\ \E e \in {"NoValidUrlKeyFound", "SpreadsheetNotFound", "WorksheetNotFound", "APIError"} :
                err' = e
          /\ pc' = Uncaught("filter")
          /\ UNCHANGED <<heap, records_df>>
       \/ /\ err' = "KeyError"
          /\ pc' = Uncaught("filter")
          /\ UNCHANGED <<steps, heap, records_df>>
    /\ UNCHANGED <<now, sheet, client, filtered_df, smtp, sent, i, failedRow>>

\* df.reset_index(drop=True, inplace=True): df stays the caller's frame
RebindInPlace(src) == src

\* The object df names after df = df.reset_index(drop=True): a new frame
Rebind(src) == 2

\* filtered_df = find_people_to_follow_up(records_df)
find_people_to_follow_up ==
    /\ pc = "filter"
    /\ steps' = Append(steps, "find_people_to_follow_up")
    /\ LET src      == records_df
           renamed  == [heap EXCEPT ![src].columns = NormalizeColumns(@)]
           df       == Rebind(src)
           copied   == [renamed EXCEPT ![df] = reset_index(renamed[src])]
           week_ago == MinusDays(now, FollowUpDays)
           fmt      == strftime(week_ago)
           e        == QueryError(copied[df], fmt)
       IN  IF e = "none"
           THEN /\ heap' = [copied EXCEPT ![df] = query(@, fmt)]
                /\ filtered_df' = df
                /\ pc' = "send"
                /\ err' = err
           ELSE /\ heap' = renamed
                /\ filtered_df' = filtered_df
                /\ pc' = Uncaught("send")
                /\ err' = e
    /\ UNCHANGED <<now, sheet, client, records_df, smtp, sent, i, failedRow>>

----------------------------------------------------------------------------
(* send_reminder_emails(filtered_df) *)

\* The positions send_reminder_emails reads a row at
RecruiterAt     == 1
HiringManagerAt == 4
CompanyAt       == 5
RoleAt          == 6

\* row.iloc[k], k counted from 0
iloc(row, k) == row.cells[k + 1]

\* row.iloc[k] raises IndexError when the row has no position k
InBounds(row, k) == k + 1 <= Len(row.cells)

\* all four positions can be read
Readable(row) ==
    \A k \in {RecruiterAt, HiringManagerAt, CompanyAt, RoleAt} : InBounds(row, k)

\* the fields the subject and the body are templated from
Message(row) ==
    LET recruiter      == iloc(row, RecruiterAt)
        hiring_manager == iloc(row, HiringManagerAt)
        company        == iloc(row, CompanyAt)
        role           == iloc(row, RoleAt)
    IN  [contact |-> PyOr(recruiter, hiring_manager), role |-> role, company |-> company]

Event(op, ok, k) == [op |-> op, ok |-> ok, row |-> k]

\* leaving the with block, normally or by an exception, closes the session
Quit == Event("quit", TRUE, 0)

Filtered == heap[filtered_df].rows

\* email = os.environ['EMAIL_ADDRESS']; password = os.environ['APP_PASSWORD']
\* with smtplib.SMTP_SSL("smtp.gmail.com", port, context=context) as server:
Connect ==
    /\ pc = "send"
    /\ steps' = Append(steps, "send_reminder_emails")
    /\ \/ /\ smtp' = Append(smtp, Event("connect", TRUE, 0))
          /\ pc' = "login"
          /\ err' = err
       \/ /\ smtp' = Append(smtp, Event("connect", FALSE, 0))
          /\ pc' = "raised"
          /\ err' = "SMTPConnectError"
       \/ /\ smtp' = smtp
          /\ pc' = "raised"
          /\ err' = "KeyError"
    /\ UNCHANGED <<now, sheet, client, heap, records_df, filtered_df, sent, i, failedRow>>

\* server.login(email, password), before the loop
Login ==
    /\ pc = "login"
    /\ \/ /\ smtp' = Append(smtp, Event("login", TRUE, 0))
          /\ pc' = "loop"
          /\ i' = 1
          /\ err' = err
       \/ /\ smtp' = smtp \o <<Event("login", FALSE, 0), Quit>>
          /\ pc' = "raised"
          /\ i' = i
          /\ err' = "SMTPAuthenticationError"
    /\ UNCHANGED <<now, sheet, client, heap, records_df, filtered_df, steps, sent, failedRow>>

\* the loop without its login: the session's first login serves every row
RowLoginOnce ==
    /\ pc = "loop"
    /\ i <= Len(Filtered)
    /\ \/ /\ ~Readable(Filtered[i])
          /\ smtp' = Append(smtp, Quit)
          /\ pc' = "raised"
          /\ err' = "IndexError"
       \/ /\ Readable(Filtered[i])
          /\ smtp' = smtp
          /\ pc' = "sendmail"
          /\ err' = err
    /\ UNCHANGED <<now, sheet, client, heap, records_df, filtered_df, steps, sent, i, failedRow>>

\* One pass of the loop up to its login: the row's fields are read by
\* position, the message is built, then server.login(email, password)
RowLogin ==
    /\ pc = "loop"
    /\ i <= Len(Filtered)
    /\ \/ /\ ~Readable(Filtered[i])
          /\ smtp' = Append(smtp, Quit)
          /\ pc' = "raised"
          /\ err' = "IndexError"
          /\ failedRow' = failedRow
       \/ /\ Readable(Filtered[i])
          /\ smtp' = Append(smtp, Event("login", TRUE, i))
          /\ pc' = "sendmail"
          /\ err' = err
          /\ failedRow' = failedRow
       \/ /\ Readable(Filtered[i])
          /\ smtp' = smtp \o <<Event("login", FALSE, i), Quit>>
          /\ pc' = "raised"
          /\ err' = "SMTPAuthenticationError"
          /\ failedRow' = i
    /\ UNCHANGED <<now, sheet, client, heap, records_df, filtered_df, steps, sent, i>>

\* sendmail with its failure caught per row: the loop goes on to the next row
RowSendIsolated ==
    /\ pc = "sendmail"
    /\ \/ /\ smtp' = Append(smtp, Event("sendmail", TRUE, i))
          /\ sent' = Append(sent, [index |-> Filtered[i].idx, msg |-> Message(Filtered[i])])
          /\ failedRow' = failedRow
       \/ /\ smtp' = Append(smtp, Event("sendmail", FALSE, i))
          /\ sent' = sent
          /\ failedRow' = i
    /\ i' = i + 1
    /\ pc' = "loop"
    /\ UNCHANGED <<now, sheet, err, client, heap, records_df, filtered_df, steps>>

\* server.sendmail(email, email, message.as_string()), and the loop's step
RowSend ==
    /\ pc = "sendmail"
    /\ \/ /\ smtp' = Append(smtp, Event("sendmail", TRUE, i))
          /\ sent' = Append(sent, [index |-> Filtered[i].idx, msg |-> Message(Filtered[i])])
          /\ i' = i + 1
          /\ pc' = "loop"
          /\ err' = err
          /\ failedRow' = failedRow
       \/ /\ smtp' = smtp \o <<Event("sendmail", FALSE, i), Quit>>
          /\ sent' = sent
          /\ i' = i
          /\ pc' = "raised"
          /\ err' = "SMTPException"
          /\ failedRow' = i
    /\ UNCHANGED <<now, sheet, client, heap, records_df, filtered_df, steps>>

\* the loop is exhausted: the with block and the script end
Finish ==
    /\ pc = "loop"
    /\ i > Len(Filtered)
    /\ smtp' = Append(smtp, Quit)
    /\ pc' = "done"
    /\ UNCHANGED <<now, sheet, err, client, heap, records_df, filtered_df, steps, sent, i, failedRow>>

Next ==
    \/ setup_client
    \/ read_spreadsheets_into_dataframe
    \/ find_people_to_follow_up
    \/ Connect
    \/ Login
    \/ RowLogin
    \/ RowSend
    \/ Finish

Spec == Init /\ [][Next]_vars

----------------------------------------------------------------------------
(* Vocabulary of the properties *)

\* find_people_to_follow_up has returned
FilterReturned == filtered_df /= 0

\* the table as read from the worksheet, before anything touched it
Original == from_dict(sheet)

\* the same table under the normalized column names
Named == [Original EXCEPT !.columns = NormalizeColumns(@)]

\* the date a week before now, as the sheet writes dates
WeekAgoText == Str(strftime(MinusDays(now, FollowUpDays)))

\* the follow-up predicate, on a row of the table read
NeedsFollowUp(row) ==
    /\ Field(Named, row, Last_Spoken_On) = WeekAgoText
    /\ Field(Named, row, Status) = Empty
    /\ \/ Field(Named, row, Recruiter) /= Empty
       \/ Field(Named, row, Hiring_Manager) /= Empty

\* the index labels of the rows returned
ReturnedLabels == {Filtered[k].idx : k \in DOMAIN Filtered}

\* the table is empty or lacks a column the query reads
Lacking ==
    \/ sheet.records = <<>>
    \/ \E name \in QueryNames : name \notin Range(NormalizeColumns(sheet.header))

TransportErrors == {"SMTPConnectError", "SMTPAuthenticationError", "SMTPException"}

MainOrder == <<"setup_client", "read_spreadsheets_into_dataframe",
               "find_people_to_follow_up", "send_reminder_emails">>

Called(f) == f \in Range(steps)

\* how many calls of op the mail server has seen
Calls(op) == Cardinality({k \in DOMAIN smtp : smtp[k].op = op})

----------------------------------------------------------------------------
(* C1: every row of the table whose Last_Spoken_On is the date a week before
   now, as mm/dd/yy text, whose Status is empty and one of whose contacts is
   not, is in the set find_people_to_follow_up returns. *)
C1_EveryMatchReturned ==
    FilterReturned =>
        \A k \in DOMAIN Named.rows :
            NeedsFollowUp(Named.rows[k]) => Named.rows[k].idx \in ReturnedLabels

(* C2: every row whose Last_Spoken_On is not the date a week before now is
   left out of the set find_people_to_follow_up returns. *)
C2_OtherDatesExcluded ==
    FilterReturned =>
        \A k \in DOMAIN Named.rows :
            Field(Named, Named.rows[k], Last_Spoken_On) /= WeekAgoText
                => Named.rows[k].idx \notin ReturnedLabels

(* C3: every returned row has an empty Status and a non-empty Recruiter or
   Hiring_Manager; a row of the table with a Status, or with neither contact,
   is not returned, whatever its date. *)
C3_ReturnedRowsOpenWithContact ==
    FilterReturned =>
        /\ \A k \in DOMAIN Filtered :
              /\ Field(heap[filtered_df], Filtered[k], Status) = Empty
              /\ \/ Field(heap[filtered_df], Filtered[k], Recruiter) /= Empty
                 \/ Field(heap[filtered_df], Filtered[k], Hiring_Manager) /= Empty
        /\ \A k \in DOMAIN Named.rows :
              \/ Field(Named, Named.rows[k], Status) /= Empty
              \/ /\ Field(Named, Named.rows[k], Recruiter) = Empty
                 /\ Field(Named, Named.rows[k], Hiring_Manager) = Empty
              => Named.rows[k].idx \notin ReturnedLabels

\* a row was returned while a row whose date compares equal was left out for
\* its status
C3_Witness ==
    /\ FilterReturned
    /\ Filtered /= <<>>
    /\ \E k \in DOMAIN Named.rows :
          /\ CellEq(Field(Named, Named.rows[k], Last_Spoken_On), ExprValue(WeekAgoText.s))
          /\ Field(Named, Named.rows[k], Status) /= Empty
          /\ Named.rows[k].idx \notin ReturnedLabels

\* the index labels of a sequence of rows, in order
Labels(rows) == [k \in DOMAIN rows |-> rows[k].idx]

(* C4: when the mail credentials are set and no call on the mail server
   fails, the run sends exactly one message per returned row, in the rows'
   order, none twice. *)
C4_OneMessagePerRow ==
    /\ pc \in {"done", "raised"}
    /\ Called("send_reminder_emails")
    /\ err \notin TransportErrors \cup {"KeyError"}
    => [k \in DOMAIN sent |-> sent[k].index] = Labels(Filtered)

(* C5, as claimed: when the table is empty or lacks a column the query
   reads, find_people_to_follow_up does not raise and returns no rows. *)
C5_LackingReturnsNothing ==
    Lacking /\ Called("find_people_to_follow_up")
        => FilterReturned /\ Filtered = <<>>

(* C5, amended: when the table is empty or lacks a column the query reads,
   find_people_to_follow_up raises (a SyntaxError or an
   UndefinedVariableError), returns nothing, and the run ends there: no mail
   session is opened and no email is sent. *)
C5_LackingRaises ==
    Lacking /\ Called("find_people_to_follow_up")
        => /\ pc = "raised"
           /\ err \in {"SyntaxError", "UndefinedVariableError"}
           /\ ~FilterReturned
           /\ ~Called("send_reminder_emails")
           /\ smtp = <<>>
           /\ sent = <<>>

\* the filter raised on a table that has rows and lacks a column
C5_Witness ==
    /\ sheet.records /= <<>>
    /\ Lacking
    /\ Called("find_people_to_follow_up")
    /\ err = "UndefinedVariableError"

(* C6: when the login or the sendmail of the k-th returned row fails, the
   messages of rows 1..k-1 stay sent, nothing is attempted for the rows after
   k, and the exception ends the run. *)
C6_FailureAbortsLoop ==
    failedRow /= 0 =>
        /\ pc = "raised"
        /\ err \in {"SMTPAuthenticationError", "SMTPException"}
        /\ i = failedRow
        /\ [k \in DOMAIN sent |-> sent[k].index]
              = Labels(SubSeq(Filtered, 1, failedRow - 1))
        /\ \A k \in DOMAIN smtp : smtp[k].row <= failedRow
        /\ Len(smtp) >= 2
        /\ smtp[Len(smtp)] = Quit
        /\ smtp[Len(smtp) - 1].row = failedRow
        /\ ~smtp[Len(smtp) - 1].ok

\* the second of three rows failed after the first was sent
C6_Witness ==
    /\ failedRow = 2
    /\ Len(Filtered) = 3
    /\ Len(sent) = 1
    /\ pc = "raised"

(* C7: after find_people_to_follow_up returns, the table the caller passed
   still holds every row it held, with the same cells, in the same order. *)
C7_SourceRowsKept ==
    FilterReturned => heap[records_df].rows = Original.rows

\* the filter returned fewer rows than the table holds
C7_Witness ==
    /\ FilterReturned
    /\ Filtered /= <<>>
    /\ Len(Filtered) < Len(heap[records_df].rows)

(* C8: a run opens one mail session, logs in once before the loop and once
   more per row right before that row's sendmail: every sendmail directly
   follows a successful login, and a run that completes has made N + 1 logins
   and N sendmails for N returned rows. *)
C8_LoginBeforeEverySend ==
    /\ Calls("connect") <= 1
    /\ smtp /= <<>> => smtp[1].op = "connect"
    /\ pc \in {"loop", "sendmail", "done"} => smtp[2] = Event("login", TRUE, 0)
    /\ \A k \in DOMAIN smtp :
          smtp[k].op = "sendmail" =>
              /\ k > 1
              /\ smtp[k - 1] = Event("login", TRUE, smtp[k].row)
    /\ pc = "done" =>
          /\ Calls("login") = Len(Filtered) + 1
          /\ Calls("sendmail") = Len(Filtered)
          /\ \A k \in DOMAIN smtp : smtp[k].ok

\* a run over two rows or more completed
C8_Witness ==
    /\ pc = "done"
    /\ Len(Filtered) >= 2
    /\ Calls("sendmail") = Len(Filtered)

(* C9: main calls setup_client, read_spreadsheets_into_dataframe,
   find_people_to_follow_up and send_reminder_emails in that order, each at
   most once; when one of the first three raises, the run ends in it: no
   later function is called, no mail session is opened, no email is sent. *)
C9_AbortsAtFailedStep ==
    /\ Len(steps) <= Len(MainOrder)
    /\ steps = SubSeq(MainOrder, 1, Len(steps))
    /\ err /= "none" => pc = "raised"
    /\ err /= "none" /\ ~Called("send_reminder_emails") =>
          /\ smtp = <<>>
          /\ sent = <<>>
          /\ ~FilterReturned

\* the read failed after the client was set up
C9_Witness ==
    /\ pc = "raised"
    /\ err = "SpreadsheetNotFound"
    /\ steps = SubSeq(MainOrder, 1, 2)
    /\ client

(* C10: the contact of the message sent for a row is the row's Recruiter
   when that is not empty and its Hiring_Manager otherwise, never empty, and
   the message's role and company are the row's Role and Company, whatever
   the order of the columns. *)
C10_MessageNamesRowFields ==
    \A k \in DOMAIN sent :
        LET df  == heap[filtered_df]
            row == Filtered[k]
            recruiter == Field(df, row, Recruiter)
        IN  /\ sent[k].index = row.idx
            /\ sent[k].msg.contact =
                  (IF recruiter /= Empty THEN recruiter ELSE Field(df, row, Hiring_Manager))
            /\ sent[k].msg.contact /= Empty
            /\ sent[k].msg.role = Field(df, row, Role)
            /\ sent[k].msg.company = Field(df, row, Company)

====
